---- MODULE Spec2Model ----
(***************************************************************************)
(* Model of pkg/model/quotation.go (diadata): the tiered quotation store.  *)
(*                                                                         *)
(*   redis      what datastore.redisClient reads (one entry per key, TTL)  *)
(*   redisPipe  the commands queued on datastore.redisPipe, in order; they *)
(*              reach redis only when the pipe is executed                 *)
(*   influx     the points of the asset-quotation measurement              *)
(*   hist       the rows of the historical-quotation table (postgres)      *)
(*   now        the wall clock (seconds)                                   *)
(*   ret        what the last call returned, and the tier calls it made    *)
(*   pending    the call of SetAssetQuotationCache(quotation, true) that   *)
(*              has read the cache (line 228) and has yet to queue its     *)
(*              write (line 239); other calls run in between               *)
(*   call       the call that looks up latest quotations                   *)
(*              (GetAssetQuotationLatest and the calls built on it) and    *)
(*              is under way: the assets it has yet to look up, what its   *)
(*              lookups gave so far, and whether it waits on the cache     *)
(*              Get (line 130) or on the time-series query (line 141);     *)
(*              other calls and the pipe run in between                    *)
(*   wpc, wq, wseen   two concurrent callers of SetAssetQuotationCache,    *)
(*              each between its cache read and its cache write            *)
(*                                                                         *)
(* Times are whole seconds, prices small integers standing for float64.   *)
(***************************************************************************)
EXTENDS Integers, Sequences, FiniteSets, TLC

VARIABLES now, redis, redisPipe, influx, hist, ret, pending, call, wpc, wq, wseen

vars == <<now, redis, redisPipe, influx, hist, ret, pending, call, wpc, wq, wseen>>
raceVars == <<pending, call, wpc, wq, wseen>>

----------------------------------------------------------------------------
(* Program constants, quotation.go lines 19-31.                            *)

WindowYesterday == 24 * 60 * 60
Window2 == 24 * 60 * 60 * 8
BufferTTL == 60 * 60
BiggestWindow == Window2
TimeOutRedis == BiggestWindow + BufferTTL
TimeOutAssetQuotation == WindowYesterday
assetQuotationLookbackHours == 24 * 7
\* time.Hour, in seconds
Hour == 3600
\* the time of a zero-valued AssetQuotation (time.Time{})
ZeroTime == 0
\* dia.Diadata
Diadata == "diadata.org"

----------------------------------------------------------------------------
(* Bounds of the model.                                                    *)

\* the clock reads this (seconds since the epoch)
StartTime == 1700000000
\* the longest queue of unexecuted commands on the pipe
MaxPipe == 2

----------------------------------------------------------------------------
(* Values.                                                                 *)

AssetA == [Symbol |-> "ABC", Name |-> "Abc", Address |-> "0xA", Blockchain |-> "Ethereum"]
AssetB == [Symbol |-> "XYZ", Name |-> "Xyz", Address |-> "0xB", Blockchain |-> "Polygon"]
Assets == {AssetA, AssetB}

\* two more records of the symbol ABC, on other chains
AssetC == [Symbol |-> "ABC", Name |-> "Abc", Address |-> "0xC", Blockchain |-> "BinanceSmartChain"]
AssetD == [Symbol |-> "ABC", Name |-> "Abc", Address |-> "0xD", Blockchain |-> "Solana"]
\* two assets whose blockchain or address holds the separator of the key
AssetU1 == [Symbol |-> "U1", Name |-> "U1", Address |-> "x", Blockchain |-> "Chain_1"]
AssetU2 == [Symbol |-> "U2", Name |-> "U2", Address |-> "1_x", Blockchain |-> "Chain"]
\* every asset some call of the model hands in
AllAssets == Assets \cup {AssetC, AssetD, AssetU1, AssetU2}

TimeOld == StartTime - 2 * Hour
TimeNew == StartTime - Hour
Times == {TimeOld, TimeNew}
\* a time before the zero time.Time (January 1, year 1), which time.Time can
\* hold
TimeBeforeZero == ZeroTime - Hour
RangeBounds == Times \cup {StartTime - 3 * Hour}
Prices == {100, 250}

ZeroAsset == [Symbol |-> "", Name |-> "", Address |-> "", Blockchain |-> ""]
ZeroQuotation == [Asset |-> ZeroAsset, Price |-> 0, Time |-> ZeroTime, Source |-> ""]

Quotation(asset, price, time) ==
    [Asset |-> asset, Price |-> price, Time |-> time, Source |-> Diadata]

\* the quotations the callers hand in: asset A at both times, at the later
\* time with either price; asset B once
Quotations ==
    {Quotation(AssetA, 100, t) : t \in Times}
    \cup {Quotation(AssetA, p, TimeNew) : p \in Prices}
    \cup {Quotation(AssetB, 100, TimeNew)}

NoErr == "nil"
RedisNil == "redis: nil"
RedisErr == "redis: connection refused"
InfluxErr == "influx: query failed"
NoQuotationErr == "no assetQuotation in DB"

----------------------------------------------------------------------------
(* Keys and the cache read.                                                *)

getKeyAssetQuotation(blockchain, address) ==
    "dia_assetquotation_USD_" \o blockchain \o "_" \o address

KeyOf(asset) == getKeyAssetQuotation(asset.Blockchain, asset.Address)

Keys == {KeyOf(a) : a \in AllAssets}

NoEntry == [present |-> FALSE, val |-> ZeroQuotation, exp |-> 0]

\* GetAssetQuotationCache: (quotation, err). down: the transport fails.
GetAssetQuotationCache(asset, down) ==
    LET key == getKeyAssetQuotation(asset.Blockchain, asset.Address) IN
    IF down THEN [val |-> ZeroQuotation, err |-> RedisErr]
    ELSE IF ~redis[key].present THEN [val |-> ZeroQuotation, err |-> RedisNil]
    ELSE [val |-> redis[key].val, err |-> NoErr]

Before_Reversed(t, u) == u < t
Before_OrEqual(t, u) == t <= u
Before_Never(t, u) == FALSE
\* time.Time.Before
Before(t, u) == t < u

SetCacheOutcome_NilIsError(quotation, check, down) ==
    LET cachestate == GetAssetQuotationCache(quotation.Asset, down) IN
    IF check /\ cachestate.err # NoErr
    THEN [written |-> FALSE, err |-> cachestate.err, queued |-> FALSE]
    ELSE IF check /\ Before(quotation.Time, cachestate.val.Time)
    THEN [written |-> FALSE, err |-> NoErr, queued |-> FALSE]
    ELSE [written |-> TRUE, err |-> NoErr, queued |-> TRUE]

SetCacheOutcome_WriteOnError(quotation, check, down) ==
    LET cachestate == GetAssetQuotationCache(quotation.Asset, down) IN
    IF check /\ cachestate.err # NoErr /\ cachestate.err # RedisNil
    THEN [written |-> FALSE, err |-> cachestate.err, queued |-> TRUE]
    ELSE IF check /\ Before(quotation.Time, cachestate.val.Time)
    THEN [written |-> FALSE, err |-> NoErr, queued |-> FALSE]
    ELSE [written |-> TRUE, err |-> NoErr, queued |-> TRUE]

\* SetAssetQuotationCache up to the pipe command: (written, err), whether a
\* Set is queued, and the cache state the check read. A command queued on a
\* pipe reports no error before the pipe is executed.
SetCacheOutcome(quotation, check, down) ==
    LET cachestate == GetAssetQuotationCache(quotation.Asset, down) IN
    IF check /\ cachestate.err # NoErr /\ cachestate.err # RedisNil
    THEN [written |-> FALSE, err |-> cachestate.err, queued |-> FALSE]
    ELSE IF check /\ Before(quotation.Time, cachestate.val.Time)
    THEN [written |-> FALSE, err |-> NoErr, queued |-> FALSE]
    ELSE [written |-> TRUE, err |-> NoErr, queued |-> TRUE]

SetCmd_TimeOutRedis(quotation) ==
    [key |-> getKeyAssetQuotation(quotation.Asset.Blockchain, quotation.Asset.Address),
     val |-> quotation,
     ttl |-> TimeOutRedis]

\* the command redisPipe.Set(key, quotation, TimeOutAssetQuotation) queues
SetCmd(quotation) ==
    [key |-> getKeyAssetQuotation(quotation.Asset.Blockchain, quotation.Asset.Address),
     val |-> quotation,
     ttl |-> TimeOutAssetQuotation]

PipeSet(pipe, quotation) == Append(pipe, SetCmd(quotation))

Ret(op, asset, written, err, val, nq, ng) ==
    [op |-> op, asset |-> asset, written |-> written, err |-> err,
     val |-> val, vals |-> <<>>, log |-> <<>>, influxQueries |-> nq, redisGets |-> ng]

\* a return of SetAssetQuotationCache(quotation, true); vals keeps the cache
\* state its freshness read saw
RetCheck(op, quotation, written, err, seen) ==
    [Ret(op, quotation.Asset, written, err, quotation, 0, 1) EXCEPT !.vals = <<seen>>]

\* no checked call is between its read and its write
NoPending == [active |-> FALSE, q |-> ZeroQuotation, seen |-> ZeroQuotation]

\* no call that looks up latest quotations is under way
NoCall ==
    [active |-> FALSE, op |-> "", rest |-> <<>>, starttime |-> 0, pc |-> "", log |-> <<>>]

\* a call that returns a slice of quotations
RetList(op, asset, err, vals, nq, ng) ==
    [Ret(op, asset, FALSE, err, ZeroQuotation, nq, ng) EXCEPT !.vals = vals]

----------------------------------------------------------------------------
(* The time-series tier.                                                   *)

\* EscapeReplacer.Replace: the symbols and names of Assets hold nothing to escape
EscapeReplacer(s) == s

\* clientInfluxdb.NewPoint for a quotation
NewPoint(quotation) ==
    [symbol |-> EscapeReplacer(quotation.Asset.Symbol),
     name |-> EscapeReplacer(quotation.Asset.Name),
     address |-> quotation.Asset.Address,
     blockchain |-> quotation.Asset.Blockchain,
     price |-> quotation.Price,
     time |-> quotation.Time]

SameSeries(p, q) ==
    /\ p.symbol = q.symbol
    /\ p.name = q.name
    /\ p.address = q.address
    /\ p.blockchain = q.blockchain

\* datastore.addPoint: a point of the same series and time replaces the old one
addPoint(points, pt) ==
    {p \in points : ~(SameSeries(p, pt) /\ p.time = pt.time)} \cup {pt}

QueryRows_InclusiveStart(asset, starttime, endtime) ==
    {p \in influx : /\ p.address = asset.Address
                    /\ p.blockchain = asset.Blockchain
                    /\ p.time >= starttime
                    /\ p.time <= endtime}

\* WHERE address=.. AND blockchain=.. AND time>start AND time<=end
QueryRows(asset, starttime, endtime) ==
    {p \in influx : /\ p.address = asset.Address
                    /\ p.blockchain = asset.Blockchain
                    /\ p.time > starttime
                    /\ p.time <= endtime}

\* ORDER BY DESC LIMIT 1
QueryLatestRows(asset, starttime, endtime) ==
    LET rows == QueryRows(asset, starttime, endtime) IN
    {p \in rows : \A q \in rows : q.time <= p.time}

\* GetAssetQuotation: the set of (quotation, err) the query can produce
GetAssetQuotationResults(asset, starttime, endtime, influxDown) ==
    IF influxDown THEN {[val |-> ZeroQuotation, err |-> InfluxErr]}
    ELSE IF QueryLatestRows(asset, starttime, endtime) = {}
    THEN {[val |-> ZeroQuotation, err |-> NoQuotationErr]}
    ELSE {[val |-> Quotation(asset, p.price, p.time), err |-> NoErr] :
            p \in QueryLatestRows(asset, starttime, endtime)}

\* what the price-returning wrappers keep of a quotation result
PriceOf(r) ==
    IF r.err = NoErr THEN [ZeroQuotation EXCEPT !.Price = r.val.Price]
    ELSE ZeroQuotation

----------------------------------------------------------------------------
(* Operations.                                                             *)

Init ==
    /\ now = StartTime
    /\ redis = [k \in Keys |-> NoEntry]
    /\ redisPipe = <<>>
    /\ influx = {}
    /\ hist = {}
    /\ ret = Ret("init", ZeroAsset, FALSE, NoErr, ZeroQuotation, 0, 0)
    /\ pending = NoPending
    /\ call = NoCall
    /\ wpc = [w \in 1..2 |-> "idle"]
    /\ wq = [w \in 1..2 |-> ZeroQuotation]
    /\ wseen = [w \in 1..2 |-> ZeroQuotation]

\* SetAssetQuotationCache up to its first return or its wait: with check the
\* call reads the cache (line 228) and returns on an error or a newer entry
\* (lines 229-235), else it goes on to the write, which is a later step;
\* without check it queues the write at once (lines 238-239)
SetAssetQuotationCache(quotation, check, down) ==
    LET out == SetCacheOutcome(quotation, check, down)
        cachestate == GetAssetQuotationCache(quotation.Asset, down) IN
    IF check /\ out.queued
    THEN /\ ~pending.active
         /\ pending' = [active |-> TRUE, q |-> quotation, seen |-> cachestate.val]
         /\ ret' = RetCheck("SetAssetQuotationCacheCheck:Get", quotation, FALSE,
                            cachestate.err, cachestate.val)
         /\ UNCHANGED <<hist, now, redis, redisPipe, influx, call, wpc, wq, wseen>>
    ELSE /\ out.queued => Len(redisPipe) < MaxPipe
         /\ redisPipe' = IF out.queued THEN PipeSet(redisPipe, quotation) ELSE redisPipe
         /\ ret' = IF check
                   THEN RetCheck("SetAssetQuotationCacheCheck", quotation, out.written,
                                 out.err, cachestate.val)
                   ELSE Ret("SetAssetQuotationCache", quotation.Asset, out.written,
                            out.err, quotation, 0, 0)
         /\ UNCHANGED <<hist, now, redis, influx, raceVars>>

\* lines 238-239 of the checked call that read the cache before: it queues its
\* write, whatever the cache holds by now, and returns written=true
SetAssetQuotationCacheWrite ==
    /\ pending.active
    /\ Len(redisPipe) < MaxPipe
    /\ redisPipe' = PipeSet(redisPipe, pending.q)
    /\ ret' = RetCheck("SetAssetQuotationCacheCheck", pending.q, TRUE, NoErr, pending.seen)
    /\ pending' = NoPending
    /\ UNCHANGED <<hist, now, redis, influx, call, wpc, wq, wseen>>

\* AddAssetQuotationsToBatch: each quotation of the slice becomes a point of the
\* measurement, in order; the call stops at the first quotation NewPoint
\* refuses (failAt, 0 for none) and returns that error. No cache write.
AddAssetQuotationsToBatch(quotations, failAt) ==
    /\ failAt <= Len(quotations)
    /\ influx' = LET upto == IF failAt = 0 THEN Len(quotations) ELSE failAt - 1
                     add[i \in 0..upto] ==
                        IF i = 0 THEN influx
                        ELSE addPoint(add[i - 1], NewPoint(quotations[i]))
                 IN add[upto]
    /\ ret' = Ret("AddAssetQuotationsToBatch", ZeroAsset, FALSE,
                  IF failAt = 0 THEN NoErr ELSE "influx: invalid point",
                  IF failAt = 0 THEN ZeroQuotation ELSE quotations[failAt], 0, 0)
    /\ UNCHANGED <<hist, now, redis, redisPipe, raceVars>>

SetAssetQuotation_AbortOnPointError(quotation, newPointFails) ==
    /\ Len(redisPipe) < MaxPipe
    /\ influx' = IF newPointFails THEN influx ELSE addPoint(influx, NewPoint(quotation))
    /\ redisPipe' = IF newPointFails THEN redisPipe ELSE PipeSet(redisPipe, quotation)
    /\ ret' = Ret("SetAssetQuotation", quotation.Asset, ~newPointFails,
                  IF newPointFails THEN "influx: invalid point" ELSE NoErr,
                  quotation, 0, 0)
    /\ UNCHANGED <<hist, now, redis, raceVars>>

SetAssetQuotation_Checked(quotation, newPointFails) ==
    LET out == SetCacheOutcome(quotation, TRUE, FALSE) IN
    /\ Len(redisPipe) < MaxPipe
    /\ influx' = IF newPointFails THEN influx ELSE addPoint(influx, NewPoint(quotation))
    /\ redisPipe' = IF out.queued THEN PipeSet(redisPipe, quotation) ELSE redisPipe
    /\ ret' = Ret("SetAssetQuotation", quotation.Asset, out.written, out.err,
                  quotation, 0, 1)
    /\ UNCHANGED <<hist, now, redis, raceVars>>

\* newPointFails: clientInfluxdb.NewPoint returns an error (it does for a
\* price that is NaN or infinite, or a time outside the store's range); the
\* point is then not added and the cache write goes ahead
SetAssetQuotation(quotation, newPointFails) ==
    LET out == SetCacheOutcome(quotation, FALSE, FALSE) IN
    /\ Len(redisPipe) < MaxPipe
    /\ influx' = IF newPointFails THEN influx ELSE addPoint(influx, NewPoint(quotation))
    /\ redisPipe' = IF out.queued THEN PipeSet(redisPipe, quotation) ELSE redisPipe
    /\ ret' = Ret("SetAssetQuotation", quotation.Asset, out.written, out.err,
                  quotation, 0, 0)
    /\ UNCHANGED <<hist, now, redis, raceVars>>

SetAssetPriceUSD(asset, price, timestamp, newPointFails) ==
    LET quotation == [Asset |-> asset, Price |-> price, Time |-> timestamp,
                      Source |-> Diadata]
        out == SetCacheOutcome(quotation, FALSE, FALSE) IN
    /\ Len(redisPipe) < MaxPipe
    /\ influx' = IF newPointFails THEN influx ELSE addPoint(influx, NewPoint(quotation))
    /\ redisPipe' = IF out.queued THEN PipeSet(redisPipe, quotation) ELSE redisPipe
    /\ ret' = Ret("SetAssetPriceUSD", asset, out.written, out.err, quotation, 0, 0)
    /\ UNCHANGED <<hist, now, redis, raceVars>>

GetAssetQuotation(asset, starttime, endtime, influxDown) ==
    /\ \E r \in GetAssetQuotationResults(asset, starttime, endtime, influxDown) :
          ret' = Ret("GetAssetQuotation", asset, FALSE, r.err, r.val, 1, 0)
    /\ UNCHANGED <<hist, now, redis, redisPipe, influx, raceVars>>

GetAssetPriceUSD(asset, starttime, endtime, influxDown) ==
    /\ \E r \in GetAssetQuotationResults(asset, starttime, endtime, influxDown) :
          ret' = Ret("GetAssetPriceUSD", asset, FALSE, r.err, PriceOf(r), 1, 0)
    /\ UNCHANGED <<hist, now, redis, redisPipe, influx, raceVars>>

\* the start of the window GetAssetPriceUSDLatest passes on:
\* time.Now().Add(time.Duration(assetQuotationLookbackHours)*time.Hour)
LatestStartTime == now + assetQuotationLookbackHours * Hour

RECURSIVE ApplyPipe(_, _, _)
\* the queued commands reach redis in the order queued; a Set replaces the
\* entry of its key and starts its time-to-live
ApplyPipe(store, pipe, at) ==
    IF pipe = <<>> THEN store
    ELSE ApplyPipe([store EXCEPT ![Head(pipe).key] =
                       [present |-> TRUE, val |-> Head(pipe).val,
                        exp |-> at + Head(pipe).ttl]],
                   Tail(pipe), at)

\* the pipe is executed; the call returns the commands it ran (ret keeps the
\* last one)
ExecuteRedisPipe ==
    /\ redisPipe # <<>>
    /\ redis' = ApplyPipe(redis, redisPipe, now)
    /\ redisPipe' = <<>>
    /\ ret' = Ret("ExecuteRedisPipe", redisPipe[Len(redisPipe)].val.Asset, FALSE, NoErr,
                  redisPipe[Len(redisPipe)].val, 0, 0)
    /\ UNCHANGED <<hist, now, influx, raceVars>>

\* the start of the lookback window: seven days before now
LookbackStart == now - assetQuotationLookbackHours * Hour

Ranges == {r \in RangeBounds \X RangeBounds : r[1] < r[2]}

\* the slices handed to AddAssetQuotationsToBatch
Batches == {<<Quotation(AssetA, 100, TimeOld)>>,
            <<Quotation(AssetA, 100, TimeOld), Quotation(AssetB, 100, TimeNew)>>}

Next ==
    \/ \E q \in Quotations : SetAssetQuotationCache(q, FALSE, FALSE)
    \/ \E b \in Batches, failAt \in 0..2 : AddAssetQuotationsToBatch(b, failAt)
    \/ \E q \in Quotations, f \in BOOLEAN : SetAssetQuotation(q, f)
    \/ \E q \in Quotations : SetAssetPriceUSD(q.Asset, q.Price, q.Time, FALSE)
    \/ \E a \in Assets, r \in Ranges, d \in BOOLEAN : GetAssetQuotation(a, r[1], r[2], d)
    \/ \E a \in Assets, r \in Ranges : GetAssetPriceUSD(a, r[1], r[2], FALSE)
    \/ ExecuteRedisPipe

Spec == Init /\ [][Next]_vars

----------------------------------------------------------------------------
(* The cache tier alone: checked and unchecked calls of                    *)
(* SetAssetQuotationCache, reads, and executions of the pipe. A checked    *)
(* call that is to write waits between its read and its write while the    *)
(* other calls and the pipe go on.                                         *)

\* a call of GetAssetQuotationCache
ReadAssetQuotationCache(asset, down) ==
    /\ ret' = Ret("GetAssetQuotationCache", asset, FALSE,
                  GetAssetQuotationCache(asset, down).err,
                  GetAssetQuotationCache(asset, down).val, 0, 1)
    /\ UNCHANGED <<hist, now, redis, redisPipe, influx, raceVars>>

NextCache ==
    \/ \E q \in Quotations, down \in BOOLEAN : SetAssetQuotationCache(q, TRUE, down)
    \/ SetAssetQuotationCacheWrite
    \/ \E q \in Quotations : SetAssetQuotationCache(q, FALSE, FALSE)
    \/ \E a \in Assets, down \in BOOLEAN : ReadAssetQuotationCache(a, down)
    \/ ExecuteRedisPipe

SpecCache == Init /\ [][NextCache]_vars

\* the quotations of freshness-checked calls of every time against the zero
\* time of the empty quotation a read of an absent entry returns (line 247):
\* after it, equal to it, before it
FirstWriteQuotations ==
    Quotations \cup {Quotation(a, 100, t) : a \in Assets, t \in {ZeroTime, TimeBeforeZero}}

\* freshness-checked calls of any quotation time, the cache reachable, and
\* executions of the pipe
NextFirstWrite ==
    \/ \E q \in FirstWriteQuotations : SetAssetQuotationCache(q, TRUE, FALSE)
    \/ SetAssetQuotationCacheWrite
    \/ ExecuteRedisPipe

SpecFirstWrite == Init /\ [][NextFirstWrite]_vars

----------------------------------------------------------------------------
(* Two concurrent calls of SetAssetQuotationCache(quotation, true): each is *)
(* a cache read (line 228) and, unless it returns early, a cache write      *)
(* (line 239); the steps of the two calls interleave freely.                *)

Writers == 1..2

\* writer w enters SetAssetQuotationCache(q, true)
RaceCall(w, q) ==
    /\ wpc[w] = "idle"
    /\ wpc' = [wpc EXCEPT ![w] = "read"]
    /\ wq' = [wq EXCEPT ![w] = q]
    /\ UNCHANGED <<hist, now, redis, redisPipe, influx, ret, pending, call, wseen>>

\* lines 228-236: the freshness read and the decision taken on it
RaceRead(w, down) ==
    LET out == SetCacheOutcome(wq[w], TRUE, down) IN
    /\ wpc[w] = "read"
    /\ wseen' = [wseen EXCEPT ![w] = GetAssetQuotationCache(wq[w].Asset, down).val]
    /\ wpc' = [wpc EXCEPT ![w] = IF out.queued THEN "write"
                                 ELSE IF out.err = NoErr THEN "skipped"
                                 ELSE "failed"]
    /\ UNCHANGED <<hist, now, redis, redisPipe, influx, ret, pending, call, wq>>

\* lines 238-239: the write
RaceWrite(w) ==
    /\ wpc[w] = "write"
    /\ Len(redisPipe) < MaxPipe
    /\ redisPipe' = PipeSet(redisPipe, wq[w])
    /\ wpc' = [wpc EXCEPT ![w] = "written"]
    /\ UNCHANGED <<hist, now, redis, influx, ret, pending, call, wq, wseen>>

NextRace ==
    \/ \E w \in Writers, q \in Quotations : RaceCall(w, q)
    \/ \E w \in Writers, down \in BOOLEAN : RaceRead(w, down)
    \/ \E w \in Writers : RaceWrite(w)
    \/ ExecuteRedisPipe

SpecRace == Init /\ [][NextRace]_vars

----------------------------------------------------------------------------
(* Range reads of the time-series tier, and the historical tier.           *)

\* AssetA's address on AssetA's blockchain, under another symbol and name:
\* another series of the measurement, the same rows for a query by address
AssetA2 == [Symbol |-> "ABCv2", Name |-> "Abc v2", Address |-> "0xA", Blockchain |-> "Ethereum"]

Coingecko == "Coingecko"
PostgresErr == "postgres: connection refused"
CannotParseDecimalsErr == "cannot parse decimals"

RangeQuotations ==
    {Quotation(AssetA, 100, TimeOld), Quotation(AssetA, 100, TimeNew),
     Quotation(AssetA2, 250, TimeNew)}

\* the sequences that hold each element of S exactly once
Orderings(S) ==
    {s \in [1..Cardinality(S) -> S] :
        \A i \in 1..Cardinality(S), j \in 1..Cardinality(S) : i # j => s[i] # s[j]}

DescByTime_Unordered(rows) == Orderings(rows)

\* ORDER BY DESC: latest first; points of one time come in either order
DescByTime(rows) ==
    {s \in Orderings(rows) : \A i \in 1..(Cardinality(rows) - 1) : s[i].time >= s[i + 1].time}

\* GetAssetQuotations: the set of (quotations, err) the query can produce;
\* <<>> is the empty slice
GetAssetQuotationsResults(asset, starttime, endtime, influxDown) ==
    IF influxDown THEN {[val |-> <<>>, err |-> InfluxErr]}
    ELSE IF QueryRows(asset, starttime, endtime) = {}
    THEN {[val |-> <<>>, err |-> NoQuotationErr]}
    ELSE {[val |-> [i \in 1..Cardinality(QueryRows(asset, starttime, endtime)) |->
                       Quotation(asset, s[i].price, s[i].time)],
           err |-> NoErr] :
            s \in DescByTime(QueryRows(asset, starttime, endtime))}

GetAssetQuotations(asset, starttime, endtime, influxDown) ==
    /\ \E r \in GetAssetQuotationsResults(asset, starttime, endtime, influxDown) :
          ret' = RetList("GetAssetQuotations", asset, r.err, r.val, 1, 0)
    /\ UNCHANGED <<hist, now, redis, redisPipe, influx, raceVars>>

\* a quotation of the historical tier
HistoricalQuotation(asset, price, time, source) ==
    [Asset |-> asset, Price |-> price, Time |-> time, Source |-> source]

\* the row INSERT writes; (address, blockchain) stands for the asset_id the
\* asset table gives them
HistRow(quotation) ==
    [address |-> quotation.Asset.Address,
     blockchain |-> quotation.Asset.Blockchain,
     price |-> quotation.Price,
     quote_time |-> quotation.Time,
     source |-> quotation.Source]

\* ON CONFLICT (asset_id,quote_time,source)
Conflict(r, row) ==
    /\ r.address = row.address
    /\ r.blockchain = row.blockchain
    /\ r.quote_time = row.quote_time
    /\ r.source = row.source

SetHistoricalQuotation_Upsert(quotation, dbDown) ==
    /\ hist' = IF dbDown THEN hist
               ELSE {r \in hist : ~Conflict(r, HistRow(quotation))} \cup {HistRow(quotation)}
    /\ ret' = Ret("SetHistoricalQuotation", quotation.Asset, FALSE,
                  IF dbDown THEN PostgresErr ELSE NoErr, quotation, 0, 0)
    /\ UNCHANGED <<now, redis, redisPipe, influx, raceVars>>

\* dbDown: postgresClient.Exec fails
SetHistoricalQuotation(quotation, dbDown) ==
    /\ hist' = IF dbDown \/ \E r \in hist : Conflict(r, HistRow(quotation))
               THEN hist
               ELSE hist \cup {HistRow(quotation)}
    /\ ret' = Ret("SetHistoricalQuotation", quotation.Asset, FALSE,
                  IF dbDown THEN PostgresErr ELSE NoErr, quotation, 0, 0)
    /\ UNCHANGED <<now, redis, redisPipe, influx, raceVars>>

HistRows_InclusiveEnd(asset, starttime, endtime) ==
    {r \in hist : /\ r.address = asset.Address
                  /\ r.blockchain = asset.Blockchain
                  /\ r.quote_time > starttime
                  /\ r.quote_time <= endtime}

\* WHERE a.address=$1 AND a.blockchain=$2 AND quote_time>start AND quote_time<end
HistRows(asset, starttime, endtime) ==
    {r \in hist : /\ r.address = asset.Address
                  /\ r.blockchain = asset.Blockchain
                  /\ r.quote_time > starttime
                  /\ r.quote_time < endtime}

AscByQuoteTime_Unordered(rows) == Orderings(rows)

\* ORDER BY hq.quote_time ASC: rows of one time come in either order
AscByQuoteTime(rows) ==
    {s \in Orderings(rows) :
        \A i \in 1..(Cardinality(rows) - 1) : s[i].quote_time <= s[i + 1].quote_time}

\* GetHistoricalQuotations: the set of (quotations, err) it can return.
\* decimalsValid: the asset's row of the asset table has its decimals set;
\* the first row scanned fails otherwise
GetHistoricalQuotationsResults(asset, starttime, endtime, dbDown, decimalsValid) ==
    IF dbDown THEN {[val |-> <<>>, err |-> PostgresErr]}
    ELSE IF HistRows(asset, starttime, endtime) = {}
    THEN {[val |-> <<>>, err |-> NoErr]}
    ELSE IF ~decimalsValid
    THEN {[val |-> <<>>, err |-> CannotParseDecimalsErr]}
    ELSE {[val |-> [i \in 1..Cardinality(HistRows(asset, starttime, endtime)) |->
                       HistoricalQuotation(asset, s[i].price, s[i].quote_time, s[i].source)],
           err |-> NoErr] :
            s \in AscByQuoteTime(HistRows(asset, starttime, endtime))}

GetHistoricalQuotations(asset, starttime, endtime, dbDown, decimalsValid) ==
    /\ \E r \in GetHistoricalQuotationsResults(asset, starttime, endtime, dbDown,
                                               decimalsValid) :
          ret' = RetList("GetHistoricalQuotations", asset, r.err, r.val, 0, 0)
    /\ UNCHANGED <<hist, now, redis, redisPipe, influx, raceVars>>

\* the rows the callers insert: one asset, two sources, the later time of
\* source diadata with either price
HistoricalQuotations ==
    {HistoricalQuotation(AssetA, 100, TimeOld, Diadata),
     HistoricalQuotation(AssetA, 100, TimeNew, Diadata),
     HistoricalQuotation(AssetA, 250, TimeNew, Diadata),
     HistoricalQuotation(AssetA, 250, TimeNew, Coingecko)}

\* ranges with both ends open around the times written
HistRanges ==
    {<<StartTime - 3 * Hour, StartTime>>, <<TimeOld, StartTime>>,
     <<StartTime - 3 * Hour, TimeNew>>}

RangeBatches == {<<Quotation(AssetA, 100, TimeOld), Quotation(AssetA2, 250, TimeNew)>>}

NextRange ==
    \/ \E q \in RangeQuotations : SetAssetQuotation(q, FALSE)
    \/ \E b \in RangeBatches, failAt \in 0..2 : AddAssetQuotationsToBatch(b, failAt)
    \/ ExecuteRedisPipe
    \/ \E a \in {AssetA, AssetA2}, r \in Ranges, d \in BOOLEAN :
          GetAssetQuotations(a, r[1], r[2], d)
    \/ \E q \in HistoricalQuotations, dbDown \in BOOLEAN : SetHistoricalQuotation(q, dbDown)
    \/ \E r \in HistRanges, dbDown \in BOOLEAN, dv \in BOOLEAN :
          GetHistoricalQuotations(AssetA, r[1], r[2], dbDown, dv)

SpecRange == Init /\ [][NextRange]_vars

----------------------------------------------------------------------------
(* Calls that look up the latest quotation of an asset.                    *)
(* GetAssetQuotationLatest reads the cache (line 130) and, on a miss or an *)
(* error, queries the time series (line 141); it waits on each tier, and   *)
(* other calls and the pipe run while it waits. The aggregation calls make *)
(* one such lookup per asset, one asset after the other. The 24h volume,   *)
(* the circulating supply and the assets of a symbol come from             *)
(* collaborators outside this file; a call is handed their answers.        *)

NoQuotationsAvailableErr == "no quotations available"
NoMatchingAssetErr == "no matching asset"
NoQuotationForSymbolErr == "no quotation for symbol"
VolumeErr == "volume: lookup failed"
SupplyErr == "supply: lookup failed"
RegistryErr == "registry: lookup failed"
\* the call does not return: nil pointer dereference
PanicErr == "panic: runtime error: invalid memory address or nil pointer dereference"

\* an answer of Get24HoursAssetVolume, GetSupplyCache or GetAssetsMarketCap:
\* kind "val" with the value, "nil" (no value, no error) or "err"
Value(v) == [kind |-> "val", val |-> v, err |-> NoErr]
NilValue == [kind |-> "nil", val |-> 0, err |-> NoErr]
Failed(e) == [kind |-> "err", val |-> 0, err |-> e]
\* the collaborator was not asked
NoMetric == [kind |-> "none", val |-> 0, err |-> NoErr]

\* the answers of the collaborators
SortedVolumes == {Failed(VolumeErr), NilValue, Value(10), Value(20)}
TopVolumes == {Failed(VolumeErr), NilValue, Value(-10), Value(0), Value(30), Value(50)}
Supplies == {Failed(SupplyErr), Value(0), Value(3), Value(5)}
Metrics == SortedVolumes \cup TopVolumes \cup Supplies \cup {NoMetric}

AggregationOps ==
    {"GetSortedAssetQuotations", "GetAssetsMarketCap", "GetTopAssetByVolume", "GetTopAssetByMcap"}

\* the collaborator a call asks after the quotation lookup of an asset
MetricAnswers(op) ==
    CASE op = "GetSortedAssetQuotations" -> SortedVolumes
      [] op = "GetTopAssetByVolume" -> TopVolumes
      [] OTHER -> Supplies

\* lines 280-284 and 458-462: the volume or the supply of an asset is looked
\* up only once its quotation lookup has succeeded; m is the answer
MetricAsked(op, err, m) ==
    m \in IF op \in AggregationOps /\ err = NoErr THEN MetricAnswers(op) ELSE {NoMetric}

\* a call under way, about to read the cache for the first of the assets
NewCall(op, assets, starttime) ==
    [active |-> TRUE, op |-> op, rest |-> assets, starttime |-> starttime,
     pc |-> "get", log |-> <<>>]

\* what the lookups of one asset gave: the quotation and the error of
\* GetAssetQuotationLatest, the time-series queries it made, and the answer
\* of the collaborator asked after it
Outcome(asset, val, err, nq, m) ==
    [asset |-> asset, val |-> val, err |-> err, nq |-> nq, metric |-> m]

\* what is returned while a call is still under way: nothing
InFlight == Ret("in flight", ZeroAsset, FALSE, NoErr, ZeroQuotation, 0, 0)

\* lines 296-301: the indices of the pairs by volume, greatest first; sort.Sort
\* leaves pairs of equal volume in either order
VolumeDescOrders(pairs) ==
    {p \in Orderings(1..Len(pairs)) :
        \A i \in 1..(Len(pairs) - 1) : pairs[p[i]].volume >= pairs[p[i + 1]].volume}

RECURSIVE SortedLoop(_)
\* lines 275-291: the (quotation, volume) pairs kept, in input order; an
\* asset whose quotation or volume lookup fails is left out
SortedLoop(log) ==
    IF log = <<>> THEN <<>>
    ELSE IF Head(log).err # NoErr \/ Head(log).metric.kind = "err"
    THEN SortedLoop(Tail(log))
    ELSE <<[quotation |-> Head(log).val, volume |-> Head(log).metric.val]>>
            \o SortedLoop(Tail(log))

\* line 290 reads *volume with no nil test: on a nil volume with a nil error
\* the call panics
Panics(op, e) ==
    /\ op = "GetSortedAssetQuotations"
    /\ e.err = NoErr
    /\ e.metric.kind = "nil"

\* GetSortedAssetQuotations, lines 292-302: the set of (quotations, err) it
\* can return after the lookups of log; a call that panics returns nothing,
\* which err = PanicErr stands for
GetSortedAssetQuotationsResults(log) ==
    IF log # <<>> /\ Panics("GetSortedAssetQuotations", log[Len(log)])
    THEN {[val |-> <<>>, err |-> PanicErr]}
    ELSE IF SortedLoop(log) = <<>>
    THEN {[val |-> <<>>, err |-> NoQuotationsAvailableErr]}
    ELSE {[val |-> [i \in 1..Len(SortedLoop(log)) |-> SortedLoop(log)[p[i]].quotation],
           err |-> NoErr] :
              p \in VolumeDescOrders(SortedLoop(log))}

\* GetAssetsMarketCap, lines 457-467, after the lookups of one asset
GetAssetsMarketCapResult(e) ==
    IF e.err # NoErr THEN Failed(e.err)
    ELSE IF e.metric.kind = "err" THEN Failed(e.metric.err)
    ELSE Value(e.val.Price * e.metric.val)

RECURSIVE TopLoop_LastWins(_, _, _, _)
TopLoop_LastWins(assets, values, best, topAsset) ==
    IF assets = <<>> THEN [best |-> best, topAsset |-> topAsset]
    ELSE IF values[1].kind = "val" /\ values[1].val # 0 /\ values[1].val >= best
    THEN TopLoop_LastWins(Tail(assets), Tail(values), values[1].val, Head(assets))
    ELSE TopLoop_LastWins(Tail(assets), Tail(values), best, topAsset)

RECURSIVE TopLoop(_, _, _, _)
\* lines 480-495 and 514-529: a failed lookup, a nil volume and a zero market
\* cap are passed over; a value greater than the greatest so far replaces it
TopLoop(assets, values, best, topAsset) ==
    IF assets = <<>> THEN [best |-> best, topAsset |-> topAsset]
    ELSE IF values[1].kind = "val" /\ values[1].val > best
    THEN TopLoop(Tail(assets), Tail(values), values[1].val, Head(assets))
    ELSE TopLoop(Tail(assets), Tail(values), best, topAsset)

TopAsset_KeepLoopError(registry, values) ==
    IF registry.err # NoErr THEN [asset |-> ZeroAsset, err |-> registry.err]
    ELSE IF Len(registry.assets) = 0 THEN [asset |-> ZeroAsset, err |-> NoMatchingAssetErr]
    ELSE LET top == TopLoop(registry.assets, values, 0, ZeroAsset) IN
         [asset |-> top.topAsset,
          err |-> IF top.best = 0 THEN NoQuotationForSymbolErr
                  ELSE values[Len(values)].err]

\* lines 472-501 and 506-535 around the loop: registry is the answer of
\* relDB.GetAssets(symbol), values the metric answers in its order
TopAsset(registry, values) ==
    IF registry.err # NoErr THEN [asset |-> ZeroAsset, err |-> registry.err]
    ELSE IF Len(registry.assets) = 0 THEN [asset |-> ZeroAsset, err |-> NoMatchingAssetErr]
    ELSE LET top == TopLoop(registry.assets, values, 0, ZeroAsset) IN
         [asset |-> top.topAsset,
          err |-> IF top.best = 0 THEN NoQuotationForSymbolErr ELSE NoErr]

\* the values the loop of a top-asset call compares, in the order looked up:
\* the volumes (line 483), or the market caps (line 517)
TopValues(op, log) ==
    [i \in 1..Len(log) |->
        IF op = "GetTopAssetByMcap" THEN GetAssetsMarketCapResult(log[i])
        ELSE log[i].metric]

\* what a call returns once its lookups gave log
Returns(op, log) ==
    CASE op = "GetAssetQuotationLatest" ->
           {Ret(op, log[1].asset, FALSE, log[1].err, log[1].val, log[1].nq, 1)}
      [] op = "GetAssetPriceUSDLatest" ->
           {Ret(op, log[1].asset, FALSE, log[1].err, PriceOf(log[1]), log[1].nq, 1)}
      [] op = "GetAssetsMarketCap" ->
           {[Ret(op, log[1].asset, FALSE, GetAssetsMarketCapResult(log[1]).err,
                 [ZeroQuotation EXCEPT !.Price = GetAssetsMarketCapResult(log[1]).val], 0, 0)
               EXCEPT !.log = log]}
      [] op = "GetSortedAssetQuotations" ->
           {[RetList(op, ZeroAsset, r.err, r.val, 0, 0) EXCEPT !.log = log] :
               r \in GetSortedAssetQuotationsResults(log)}
      [] OTHER ->
           LET top == TopAsset([assets |-> [i \in 1..Len(log) |-> log[i].asset], err |-> NoErr],
                               TopValues(op, log)) IN
           {[Ret(op, top.asset, FALSE, top.err, ZeroQuotation, 0, 0) EXCEPT !.log = log]}

\* the lookups of the first asset of c.rest gave e: the call goes on to the
\* next asset, or returns when there is none (or when it panics)
Resolved(c, e) ==
    IF Len(c.rest) = 1 \/ Panics(c.op, e)
    THEN /\ ret' \in Returns(c.op, Append(c.log, e))
         /\ call' = NoCall
    ELSE /\ ret' = InFlight
         /\ call' = [c EXCEPT !.rest = Tail(c.rest), !.pc = "get", !.log = Append(c.log, e)]

CacheHit_Never(cached) == FALSE

\* line 131: err == nil
CacheHit(cached) == cached.err = NoErr

Lookup_Caching(c, redisDown, m) ==
    LET cached == GetAssetQuotationCache(Head(c.rest), redisDown) IN
    /\ IF CacheHit(cached)
       THEN /\ MetricAsked(c.op, NoErr, m)
            /\ Resolved(c, Outcome(Head(c.rest), cached.val, NoErr, 0, m))
            /\ redisPipe' = IF Len(redisPipe) < MaxPipe
                            THEN PipeSet(redisPipe, cached.val) ELSE redisPipe
       ELSE /\ m = NoMetric
            /\ ret' = InFlight
            /\ call' = [c EXCEPT !.pc = "query"]
            /\ redisPipe' = redisPipe
    /\ UNCHANGED <<hist, now, redis, influx, pending, wpc, wq, wseen>>

\* GetAssetQuotationLatest, lines 128-134, for the first asset of c.rest: the
\* cache Get; a hit is the answer, a miss or an error leaves the call to wait
\* on the time-series query
Lookup(c, redisDown, m) ==
    LET cached == GetAssetQuotationCache(Head(c.rest), redisDown) IN
    /\ IF CacheHit(cached)
       THEN /\ MetricAsked(c.op, NoErr, m)
            /\ Resolved(c, Outcome(Head(c.rest), cached.val, NoErr, 0, m))
       ELSE /\ m = NoMetric
            /\ ret' = InFlight
            /\ call' = [c EXCEPT !.pc = "query"]
    /\ UNCHANGED <<hist, now, redis, redisPipe, influx, pending, wpc, wq, wseen>>

LookupQuery_ReadThrough(influxDown, m) ==
    /\ call.active
    /\ call.pc = "query"
    /\ \E r \in GetAssetQuotationResults(Head(call.rest), call.starttime, now, influxDown) :
          /\ MetricAsked(call.op, r.err, m)
          /\ Resolved(call, Outcome(Head(call.rest), r.val, r.err, 1, m))
          /\ redisPipe' = IF r.err = NoErr /\ Len(redisPipe) < MaxPipe
                          THEN PipeSet(redisPipe, r.val) ELSE redisPipe
    /\ UNCHANGED <<hist, now, redis, influx, pending, wpc, wq, wseen>>

\* GetAssetQuotationLatest, line 141, of the call under way: the time-series
\* query over (starttime, endtime]; its result is the answer of the lookup
LookupQuery(influxDown, m) ==
    /\ call.active
    /\ call.pc = "query"
    /\ \E r \in GetAssetQuotationResults(Head(call.rest), call.starttime, now, influxDown) :
          /\ MetricAsked(call.op, r.err, m)
          /\ Resolved(call, Outcome(Head(call.rest), r.val, r.err, 1, m))
    /\ UNCHANGED <<hist, now, redis, redisPipe, influx, pending, wpc, wq, wseen>>

\* lines 275 and 515: the loop of the call under way comes to its next asset
LookupNext(redisDown, m) ==
    /\ call.active
    /\ call.pc = "get"
    /\ call.op # "GetTopAssetByVolume"
    /\ Lookup(call, redisDown, m)

\* line 483 for the first asset of c.rest: Get24HoursAssetVolume answers m
Volume(c, m) ==
    /\ MetricAsked(c.op, NoErr, m)
    /\ Resolved(c, Outcome(Head(c.rest), ZeroQuotation, NoErr, 0, m))
    /\ UNCHANGED <<hist, now, redis, redisPipe, influx, pending, wpc, wq, wseen>>

\* line 481: the loop of the call under way comes to its next candidate
VolumeNext(m) ==
    /\ call.active
    /\ call.pc = "get"
    /\ call.op = "GetTopAssetByVolume"
    /\ Volume(call, m)

\* a call returns before any lookup
ReturnsAtOnce(r) ==
    /\ ret' = r
    /\ UNCHANGED <<hist, now, redis, redisPipe, influx, raceVars>>

GetAssetQuotationLatest(asset, starttime, redisDown) ==
    /\ ~call.active
    /\ Lookup(NewCall("GetAssetQuotationLatest", <<asset>>, starttime), redisDown, NoMetric)

GetAssetPriceUSDLatest(asset, redisDown) ==
    /\ ~call.active
    /\ Lookup(NewCall("GetAssetPriceUSDLatest", <<asset>>, LatestStartTime), redisDown, NoMetric)

\* m: the answer of Get24HoursAssetVolume, should the first lookup be a hit
GetSortedAssetQuotations(assets, redisDown, m) ==
    /\ ~call.active
    /\ IF assets = <<>>
       THEN /\ m = NoMetric
            /\ ~redisDown
            /\ \E r \in Returns("GetSortedAssetQuotations", <<>>) : ReturnsAtOnce(r)
       ELSE Lookup(NewCall("GetSortedAssetQuotations", assets, LatestStartTime), redisDown, m)

\* m: the answer of GetSupplyCache, should the lookup be a hit
GetAssetsMarketCap(asset, redisDown, m) ==
    /\ ~call.active
    /\ Lookup(NewCall("GetAssetsMarketCap", <<asset>>, LatestStartTime), redisDown, m)

\* registry: the answer of relDB.GetAssets(symbol); m: the answer of
\* Get24HoursAssetVolume for the first candidate
GetTopAssetByVolume(symbol, registry, m) ==
    /\ ~call.active
    /\ IF registry.err # NoErr \/ Len(registry.assets) = 0
       THEN /\ m = NoMetric
            /\ ReturnsAtOnce(Ret("GetTopAssetByVolume", TopAsset(registry, <<>>).asset, FALSE,
                                 TopAsset(registry, <<>>).err, ZeroQuotation, 0, 0))
       ELSE Volume(NewCall("GetTopAssetByVolume", registry.assets, LatestStartTime), m)

\* lines 506-513: registry is the answer of relDB.GetAssets(symbol), which the
\* call waits for; with candidates it then comes to its loop, nothing read
\* of the cache yet
GetTopAssetByMcap(symbol, registry) ==
    /\ ~call.active
    /\ IF registry.err # NoErr \/ Len(registry.assets) = 0
       THEN ReturnsAtOnce(Ret("GetTopAssetByMcap", TopAsset(registry, <<>>).asset, FALSE,
                              TopAsset(registry, <<>>).err, ZeroQuotation, 0, 0))
       ELSE /\ call' = NewCall("GetTopAssetByMcap", registry.assets, LatestStartTime)
            /\ ret' = InFlight
            /\ UNCHANGED <<hist, now, redis, redisPipe, influx, pending, wpc, wq, wseen>>

\* latest reads next to the writes of the quotation service
NextLatest ==
    \/ \E q \in Quotations, f \in BOOLEAN : SetAssetQuotation(q, f)
    \/ ExecuteRedisPipe
    \/ \E a \in Assets, rd \in BOOLEAN : GetAssetQuotationLatest(a, LookbackStart, rd)
    \/ \E a \in Assets, rd \in BOOLEAN : GetAssetPriceUSDLatest(a, rd)
    \/ \E d \in BOOLEAN : LookupQuery(d, NoMetric)

SpecLatest == Init /\ [][NextLatest]_vars

\* the inputs of the aggregation calls
AggAssets == <<AssetA, AssetC, AssetD>>
AggQuotations == {Quotation(AssetA, 100, TimeNew), Quotation(AssetC, 100, TimeNew),
                  Quotation(AssetD, 100, TimeOld)}
AssetLists == {<<>>, AggAssets, <<AssetD, AssetA>>}
Registries == {[assets |-> <<>>, err |-> RegistryErr], [assets |-> <<>>, err |-> NoErr],
               [assets |-> AggAssets, err |-> NoErr]}

AggBatches == {<<Quotation(AssetA, 100, TimeNew)>>}

NextAgg ==
    \/ \E q \in AggQuotations : SetAssetQuotation(q, FALSE)
    \/ \E b \in AggBatches, failAt \in 0..1 : AddAssetQuotationsToBatch(b, failAt)
    \/ ExecuteRedisPipe
    \/ \E l \in AssetLists, rd \in BOOLEAN, m \in Metrics : GetSortedAssetQuotations(l, rd, m)
    \/ \E a \in {AssetA, AssetD}, rd \in BOOLEAN, m \in Metrics : GetAssetsMarketCap(a, rd, m)
    \/ \E r \in Registries, m \in Metrics : GetTopAssetByVolume("ABC", r, m)
    \/ \E r \in Registries : GetTopAssetByMcap("ABC", r)
    \/ \E rd \in BOOLEAN, m \in Metrics : LookupNext(rd, m)
    \/ \E m \in Metrics : VolumeNext(m)
    \/ \E m \in Metrics : LookupQuery(FALSE, m)

SpecAgg == Init /\ [][NextAgg]_vars

----------------------------------------------------------------------------
(* Cache slots of assets whose blockchain or address holds a "_".          *)

KeyAssets == {AssetU1, AssetU2}
KeyQuotations == {Quotation(a, 100, t) : a \in KeyAssets, t \in Times}

NextKeys ==
    \/ \E q \in KeyQuotations, check \in BOOLEAN : SetAssetQuotationCache(q, check, FALSE)
    \/ SetAssetQuotationCacheWrite
    \/ ExecuteRedisPipe
    \/ \E a \in KeyAssets, down \in BOOLEAN : ReadAssetQuotationCache(a, down)

SpecKeys == Init /\ [][NextKeys]_vars

----------------------------------------------------------------------------
(* Helpers of the properties.                                              *)

Entry(asset) == redis[KeyOf(asset)]

\* a call of SetAssetQuotationCache skipped its write and changed nothing
Skipped ==
    /\ ret'.op = "SetAssetQuotationCacheCheck"
    /\ ret'.written = FALSE
    /\ ret'.err = NoErr
    /\ pending' = pending
    /\ redis' = redis
    /\ redisPipe' = redisPipe

HasCmd(k, pipe) == \E i \in 1..Len(pipe) : pipe[i].key = k

LastCmd(k, pipe) ==
    pipe[CHOOSE i \in 1..Len(pipe) :
            pipe[i].key = k /\ \A j \in (i + 1)..Len(pipe) : pipe[j].key # k]

----------------------------------------------------------------------------
(* C1: freshness.                                                          *)

\* C1 as claimed: a freshness-checked call that returned written=true for
\* qOld, directly followed by a freshness-checked call for the same asset
\* with an older time, makes the second call skip its write and leaves the
\* cache as it was.
C1_Original ==
    [][\A qNew \in Quotations :
          (/\ ret.op = "SetAssetQuotationCacheCheck"
           /\ ret.written /\ ret.err = NoErr
           /\ ret.val.Asset = qNew.Asset
           /\ qNew.Time < ret.val.Time
           /\ SetAssetQuotationCache(qNew, TRUE, FALSE))
          => Skipped]_vars

\* C1 as amended: once qOld is the entry the cache holds (its queued write was
\* executed), a freshness-checked call with an older time returns
\* written=false and no error, changes neither the cache nor the pipe, and a
\* following GetAssetQuotationCache still returns qOld.
C1_Freshness ==
    [][\A qNew \in Quotations :
          (/\ Entry(qNew.Asset).present
           /\ qNew.Time < Entry(qNew.Asset).val.Time
           /\ SetAssetQuotationCache(qNew, TRUE, FALSE))
          => /\ Skipped
             /\ GetAssetQuotationCache(qNew.Asset, FALSE)'
                  = [val |-> Entry(qNew.Asset).val, err |-> NoErr]]_vars

C1_Witness ==
    /\ ret.op = "SetAssetQuotationCacheCheck"
    /\ ret.written = FALSE /\ ret.err = NoErr
    /\ Entry(ret.asset).present
    /\ ret.val.Time < Entry(ret.asset).val.Time

----------------------------------------------------------------------------
(* C2: when the freshness check skips.                                     *)

\* C2 as claimed: with freshness enforcement the write is skipped (written
\* false, no error, nothing changed) exactly when the freshness read succeeds
\* and the cached time is newer than or equal to the incoming time.
C2_Original ==
    [][\A q \in Quotations, down \in BOOLEAN :
          SetAssetQuotationCache(q, TRUE, down)
          => (Skipped <=> (/\ ~down
                           /\ Entry(q.Asset).present
                           /\ Entry(q.Asset).val.Time >= q.Time))]_vars

\* C2 as amended: the write is skipped exactly when the freshness read
\* succeeds and the cached time is strictly newer than the incoming time; an
\* incoming quotation of equal time is written.
C2_SkipIffStrictlyNewer ==
    [][\A q \in Quotations, down \in BOOLEAN :
          (/\ ret'.op \in {"SetAssetQuotationCacheCheck", "SetAssetQuotationCacheCheck:Get"}
           /\ ret'.val = q
           /\ SetAssetQuotationCache(q, TRUE, down))
          => (Skipped <=> (/\ ~down
                           /\ Entry(q.Asset).present
                           /\ Entry(q.Asset).val.Time > q.Time))]_vars

\* an equal-time quotation of another price was written over the cached one
C2_Witness ==
    /\ ret.op = "SetAssetQuotationCacheCheck"
    /\ ret.written
    /\ Entry(ret.asset).present
    /\ Entry(ret.asset).val.Time = ret.val.Time
    /\ Entry(ret.asset).val.Price # ret.val.Price
    /\ redisPipe # <<>>
    /\ redisPipe[Len(redisPipe)].val = ret.val

----------------------------------------------------------------------------
(* C3: the cached time as a running maximum.                               *)

\* C3 as claimed: the cached time is the maximum of the times written to the
\* cache for the asset, that is, no write that reaches the cache lowers the
\* time of the entry it replaces.
C3_Original ==
    [][\A k \in Keys :
          (redis[k].present /\ redis'[k].present)
          => redis'[k].val.Time >= redis[k].val.Time]_vars

\* C3 as amended: a freshness-checked write that is queued alone and executed
\* before any other call, while the cache still holds the entry its freshness
\* read saw, never lowers the cached time (so the cached time is the maximum
\* over a sequence of such writes); unchecked writes, writes queued together
\* and writes whose read is out of date by then can lower it.
C3_CheckedWritesKeepMaximum ==
    [][(/\ ret.op = "SetAssetQuotationCacheCheck"
        /\ ret.written
        /\ Len(redisPipe) = 1
        /\ ret.vals = <<Entry(ret.asset).val>>
        /\ ExecuteRedisPipe)
       => /\ redis'[KeyOf(ret.asset)].present
          /\ redis'[KeyOf(ret.asset)].val = ret.val
          /\ \A k \in Keys :
                redis[k].present =>
                   /\ redis'[k].present
                   /\ redis'[k].val.Time >= redis[k].val.Time]_vars

\* a checked write of a newer time waits alone on the pipe over an older entry
C3_Witness ==
    /\ ret.op = "SetAssetQuotationCacheCheck"
    /\ ret.written
    /\ Len(redisPipe) = 1
    /\ ret.vals = <<Entry(ret.asset).val>>
    /\ redisPipe[1].val = ret.val
    /\ Entry(ret.asset).present
    /\ Entry(ret.asset).val.Time < ret.val.Time

----------------------------------------------------------------------------
(* C4: two concurrent freshness-checked writers.                           *)

\* both calls returned without error, for one asset, w with the older time,
\* and every queued write has been executed
RaceOver(w, v) ==
    /\ wpc[w] \in {"written", "skipped"}
    /\ wpc[v] \in {"written", "skipped"}
    /\ redisPipe = <<>>
    /\ wq[w].Asset = wq[v].Asset
    /\ wq[w].Time < wq[v].Time

\* C4 as claimed: under every interleaving of the two calls' read and write
\* steps the cache finally holds the quotation with the newer time.
C4_Original ==
    \A w \in Writers, v \in Writers :
       RaceOver(w, v)
       => /\ Entry(wq[v].Asset).present
          /\ Entry(wq[v].Asset).val.Time = wq[v].Time

\* C4 as amended: the cache finally holds the newer quotation in every
\* interleaving in which the stale writer's cache read observes the newer
\* quotation; the stale writer then skips its write.
C4_StaleWriterThatSeesNewerSkips ==
    \A w \in Writers, v \in Writers :
       (RaceOver(w, v) /\ wseen[w] = wq[v])
       => /\ wpc[w] = "skipped"
          /\ Entry(wq[v].Asset).present
          /\ Entry(wq[v].Asset).val = wq[v]

C4_Witness ==
    \E w \in Writers, v \in Writers :
       /\ RaceOver(w, v)
       /\ wseen[w] = wq[v]
       /\ wpc[w] = "skipped"
       /\ Entry(wq[v].Asset).val = wq[v]

----------------------------------------------------------------------------
(* C5: write, then read.                                                   *)

\* C5 as claimed: a GetAssetQuotationLatest(q.Asset) that directly follows a
\* successful SetAssetQuotation(q) and is answered by its cache read returns,
\* without error, q's price (the write is visible to the read).
C5_Original ==
    [][\A a \in Assets :
          (/\ ret.op = "SetAssetQuotation"
           /\ ret.err = NoErr
           /\ ret.asset = a
           /\ GetAssetQuotationLatest(a, LookbackStart, FALSE)
           /\ ret'.op = "GetAssetQuotationLatest")
          => (ret'.err = NoErr /\ ret'.val.Price = ret.val.Price)]_vars

\* C5 as amended: SetAssetQuotation(q) queues the Set of q on the redis pipe;
\* when the pipe is executed with that Set as q.Asset's last command, the
\* cache holds q; a GetAssetQuotationLatest(q.Asset) that directly follows
\* the execution, with redis reachable, returns q's price from its cache read
\* without error and without a time-series query.
C5_RoundTripOncePipeExecuted ==
    [][/\ \A q \in Quotations, f \in BOOLEAN :
             SetAssetQuotation(q, f)
             => /\ ret'.err = NoErr
                /\ redisPipe'[Len(redisPipe')] = SetCmd(q)
       /\ \A a \in Assets :
             (/\ ret.op = "SetAssetQuotation"
              /\ ret.asset = a
              /\ redisPipe[Len(redisPipe)] = SetCmd(ret.val)
              /\ ExecuteRedisPipe)
             => (ret'.asset = a /\ ret'.val = ret.val /\ Entry(a)'.val = ret.val)
       /\ \A a \in Assets :
             (/\ ret.op = "ExecuteRedisPipe"
              /\ ret.asset = a
              /\ GetAssetQuotationLatest(a, LookbackStart, FALSE))
             => /\ ret'.op = "GetAssetQuotationLatest"
                /\ ret'.err = NoErr
                /\ ret'.val.Price = ret.val.Price
                /\ ret'.influxQueries = 0
                /\ ~call'.active]_vars

\* a read served from the cache entry a write left, the time-series tier
\* holding no point of that price for the asset
C5_Witness ==
    /\ ret.op = "GetAssetQuotationLatest"
    /\ ret.err = NoErr
    /\ ret.influxQueries = 0
    /\ Entry(ret.asset).present
    /\ Entry(ret.asset).val = ret.val
    /\ ret.val.Price = 250
    /\ \A p \in influx : p.price # 250

----------------------------------------------------------------------------
(* C6: SetAssetQuotation does not enforce freshness.                       *)

\* C6 as claimed: after a successful SetAssetQuotation the cache holds the
\* quotation of that call.
C6_Original ==
    (ret.op = "SetAssetQuotation" /\ ret.err = NoErr)
    => (Entry(ret.asset).present /\ Entry(ret.asset).val = ret.val)

\* C6 as amended: every SetAssetQuotation(q) reports written=true with no
\* error and queues the Set of q behind the commands already on the pipe,
\* whatever time the cached entry carries; when the pipe is executed, each
\* key holds the quotation of the last command queued for it, so the cache
\* then holds the quotation of the most recent call.
C6_LastCallWinsOncePipeExecuted ==
    [][/\ \A q \in Quotations, f \in BOOLEAN :
             SetAssetQuotation(q, f)
             => /\ ret'.written
                /\ ret'.err = NoErr
                /\ redisPipe' = Append(redisPipe, SetCmd(q))
                /\ redis' = redis
       /\ ExecuteRedisPipe
             => \A k \in Keys :
                   IF HasCmd(k, redisPipe)
                   THEN /\ redis'[k].present
                        /\ redis'[k].val = LastCmd(k, redisPipe).val
                   ELSE redis'[k] = redis[k]]_vars

\* the last call carried an older time than the entry the cache holds, and
\* its Set is the last command on the pipe
C6_Witness ==
    /\ ret.op = "SetAssetQuotation"
    /\ ret.written
    /\ Entry(ret.asset).present
    /\ Entry(ret.asset).val.Time > ret.val.Time
    /\ redisPipe # <<>>
    /\ redisPipe[Len(redisPipe)] = SetCmd(ret.val)

----------------------------------------------------------------------------
(* C7: failure of the time-series append.                                  *)

\* C7 as claimed: when the append fails, SetAssetQuotation(q) returns the
\* cache write's nil error, the time-series tier is left without the point,
\* and the cache holds q.
C7_Original ==
    [][\A q \in Quotations :
          SetAssetQuotation(q, TRUE)
          => /\ ret'.err = NoErr
             /\ influx' = influx
             /\ Entry(q.Asset)'.present
             /\ Entry(q.Asset)'.val = q]_vars

\* C7 as amended: when the append fails, SetAssetQuotation(q) still issues
\* the cache write (the Set of q is queued on the redis pipe), it returns
\* the error of that write alone (nil), and the time-series tier is left
\* unchanged; when the pipe is then executed the cache holds q while the
\* time-series tier stays as it was.
C7_AppendFailureKeepsCacheWrite ==
    [][/\ \A q \in Quotations :
             SetAssetQuotation(q, TRUE)
             => /\ ret'.written
                /\ ret'.err = SetCacheOutcome(q, FALSE, FALSE).err
                /\ ret'.err = NoErr
                /\ influx' = influx
                /\ redisPipe' = PipeSet(redisPipe, q)
       /\ \A a \in Assets :
             (/\ ret.op = "SetAssetQuotation"
              /\ ret.asset = a
              /\ redisPipe[Len(redisPipe)] = SetCmd(ret.val)
              /\ ExecuteRedisPipe)
             => (Entry(a)'.val = ret.val /\ influx' = influx)]_vars

\* the cache holds a quotation of which the time-series tier has no point
C7_Witness ==
    /\ ret.op = "ExecuteRedisPipe"
    /\ Entry(ret.asset).present
    /\ Entry(ret.asset).val = ret.val
    /\ influx = {}

----------------------------------------------------------------------------
(* C8: cache first, time-series tier second.                               *)

\* C8 as claimed: GetAssetPriceUSDLatest returns the cached price when the
\* cache Get succeeds, and on a miss or a cache error the price of the most
\* recent point t with now-7d < t <= now, with an error only if that query
\* fails.
C8_Original ==
    [][\A a \in Assets, rd \in BOOLEAN, d \in BOOLEAN :
          /\ GetAssetPriceUSDLatest(a, rd)
             => IF GetAssetQuotationCache(a, rd).err = NoErr
                THEN /\ ret'.op = "GetAssetPriceUSDLatest"
                     /\ ret'.err = NoErr
                     /\ ret'.val = PriceOf(GetAssetQuotationCache(a, rd))
                ELSE call'.active /\ call'.pc = "query"
          /\ (/\ call.active
              /\ call.op = "GetAssetPriceUSDLatest"
              /\ Head(call.rest) = a
              /\ LookupQuery(d, NoMetric))
             => /\ ret'.op = "GetAssetPriceUSDLatest"
                /\ \E r \in GetAssetQuotationResults(a, LookbackStart, now, d) :
                      ret'.err = r.err /\ ret'.val = PriceOf(r)]_vars

----------------------------------------------------------------------------
(* C9: two latest reads in a row.                                          *)

\* C9 as claimed: a GetAssetQuotationLatest that was answered by the
\* time-series tier is followed by an identical call that is answered by its
\* cache read, with no time-series query.
C9_Original ==
    [][\A a \in Assets :
          (/\ ret.op = "GetAssetQuotationLatest"
           /\ ret.asset = a
           /\ ret.err = NoErr
           /\ ret.influxQueries = 1
           /\ GetAssetQuotationLatest(a, LookbackStart, FALSE))
          => (ret'.op = "GetAssetQuotationLatest" /\ ret'.influxQueries = 0)]_vars

\* C9 as amended: with no cached entry for the asset, GetAssetQuotationLatest
\* over the lookback window goes on to the time-series query, also when the
\* call before it was the same call answered by the time-series tier; the
\* query returns the most recent point of the window at that moment, counts
\* as one time-series query and leaves cache and pipe as they were.
C9_NoReadThrough ==
    [][\A a \in Assets :
          /\ (/\ ~Entry(a).present
              /\ GetAssetQuotationLatest(a, LookbackStart, FALSE))
             => /\ call'.active
                /\ call'.pc = "query"
                /\ redis' = redis
                /\ redisPipe' = redisPipe
          /\ (/\ call.active
              /\ call.op = "GetAssetQuotationLatest"
              /\ Head(call.rest) = a
              /\ LookupQuery(FALSE, NoMetric))
             => /\ ret'.op = "GetAssetQuotationLatest"
                /\ ret'.influxQueries = 1
                /\ redis' = redis
                /\ redisPipe' = redisPipe
                /\ [val |-> ret'.val, err |-> ret'.err]
                      \in GetAssetQuotationResults(a, LookbackStart, now, FALSE)]_vars

\* the first call of the scenario has returned price 100 from the
\* time-series tier and the asset still has no cached entry
C9_Witness ==
    /\ ret.op = "GetAssetQuotationLatest"
    /\ ret.asset = AssetA
    /\ ret.err = NoErr
    /\ ret.val.Price = 100
    /\ ret.influxQueries = 1
    /\ ~Entry(AssetA).present
    /\ Cardinality(influx) = 1

----------------------------------------------------------------------------
(* C10: ranged reads.                                                      *)

\* the points of the asset inside (starttime, endtime]
InRange(asset, starttime, endtime) ==
    {p \in influx : /\ p.address = asset.Address
                    /\ p.blockchain = asset.Blockchain
                    /\ starttime < p.time
                    /\ p.time <= endtime}

\* the answer of a ranged read as a function of the time-series tier alone
RangedAnswer(asset, starttime, endtime, r) ==
    IF InRange(asset, starttime, endtime) = {}
    THEN r.err = NoQuotationErr
    ELSE /\ r.err = NoErr
         /\ \E p \in InRange(asset, starttime, endtime) :
               /\ \A o \in InRange(asset, starttime, endtime) : o.time <= p.time
               /\ r.val.Price = p.price

\* the step is a ranged read of the asset over (starttime, endtime]
RangedRead(asset, starttime, endtime, influxDown) ==
    \/ /\ ret'.op = "GetAssetQuotation"
       /\ GetAssetQuotation(asset, starttime, endtime, influxDown)
    \/ /\ ret'.op = "GetAssetPriceUSD"
       /\ GetAssetPriceUSD(asset, starttime, endtime, influxDown)

\* C10: GetAssetQuotation and GetAssetPriceUSD neither read nor write the
\* cache tier, and with the time-series tier reachable they return the most
\* recent point of the asset with start < time <= end, or the no-data error
\* when there is none, whatever the cache holds.
C10_RangedReadsBypassCache ==
    [][ret'.op \in {"GetAssetQuotation", "GetAssetPriceUSD"}
       => \A r \in Ranges, d \in BOOLEAN :
             RangedRead(ret'.asset, r[1], r[2], d)
             => /\ redis' = redis
                /\ redisPipe' = redisPipe
                /\ influx' = influx
                /\ ret'.redisGets = 0
                /\ ret'.influxQueries = 1
                /\ ~d => RangedAnswer(ret'.asset, r[1], r[2], ret')
                /\ d => ret'.err = InfluxErr]_vars

\* a ranged read has answered with a point older than the cached entry of
\* the asset: the start of the range excluded nothing, its end did
C10_Witness ==
    /\ ret.op = "GetAssetQuotation"
    /\ ret.err = NoErr
    /\ ret.val.Time = TimeOld
    /\ Entry(ret.asset).present
    /\ Entry(ret.asset).val.Time = TimeNew
    /\ \E p \in influx : p.address = ret.asset.Address /\ p.time = TimeNew

----------------------------------------------------------------------------
(* C11: the order of range results.                                        *)

\* C11 as claimed: GetAssetQuotations returns strictly descending times and
\* GetHistoricalQuotations strictly ascending times.
C11_Original ==
    /\ (ret.op = "GetAssetQuotations" /\ ret.err = NoErr)
       => \A i \in 1..Len(ret.vals), j \in 1..Len(ret.vals) :
             i < j => ret.vals[i].Time > ret.vals[j].Time
    /\ (ret.op = "GetHistoricalQuotations" /\ ret.err = NoErr)
       => \A i \in 1..Len(ret.vals), j \in 1..Len(ret.vals) :
             i < j => ret.vals[i].Time < ret.vals[j].Time

\* C11 as amended: GetAssetQuotations returns its points in descending time
\* order, two of them sharing a time only when the measurement holds two
\* series (symbol, name) of the asset's address and blockchain with a point
\* at that time; GetHistoricalQuotations returns its rows in ascending time
\* order, two of them sharing a time only when they differ in source.
C11_RangeResultsOrdered ==
    /\ (ret.op = "GetAssetQuotations" /\ ret.err = NoErr)
       => /\ Len(ret.vals) >= 1
          /\ \A i \in 1..Len(ret.vals), j \in 1..Len(ret.vals) :
                i < j
                => /\ ret.vals[i].Time >= ret.vals[j].Time
                   /\ ret.vals[i].Time = ret.vals[j].Time
                      => \E p \in influx, q \in influx :
                            /\ ~SameSeries(p, q)
                            /\ p.address = ret.asset.Address
                            /\ q.address = ret.asset.Address
                            /\ p.blockchain = ret.asset.Blockchain
                            /\ q.blockchain = ret.asset.Blockchain
                            /\ p.time = ret.vals[i].Time
                            /\ q.time = ret.vals[i].Time
    /\ (ret.op = "GetHistoricalQuotations" /\ ret.err = NoErr)
       => \A i \in 1..Len(ret.vals), j \in 1..Len(ret.vals) :
             i < j
             => /\ ret.vals[i].Time <= ret.vals[j].Time
                /\ ret.vals[i].Time = ret.vals[j].Time
                   => ret.vals[i].Source # ret.vals[j].Source

\* a historical range of three rows, the last two of one time and two sources
C11_Witness ==
    /\ ret.op = "GetHistoricalQuotations"
    /\ ret.err = NoErr
    /\ Len(ret.vals) = 3
    /\ ret.vals[1].Time < ret.vals[2].Time
    /\ ret.vals[2].Time = ret.vals[3].Time
    /\ ret.vals[2].Source # ret.vals[3].Source

----------------------------------------------------------------------------
(* C12: inserting a historical quotation twice.                            *)

\* the entries of a result for one time and source
EntriesOf(val, time, source) ==
    {i \in 1..Len(val) : val[i].Time = time /\ val[i].Source = source}

\* C12: SetHistoricalQuotation of an (asset, time, source) the table already
\* holds changes nothing and returns no error, whatever price it carries; no
\* step changes or removes a row; a GetHistoricalQuotations that follows an
\* insert, over a range with the inserted time inside, returns exactly one
\* row of that (asset, time, source), with the price the table held first.
C12_HistoricalInsertIdempotent ==
    [][/\ \A r \in hist : r \in hist'
       /\ \A q \in HistoricalQuotations :
             (/\ \E r \in hist : Conflict(r, HistRow(q))
              /\ SetHistoricalQuotation(q, FALSE))
             => (hist' = hist /\ ret'.err = NoErr)
       /\ \A r \in HistRanges :
             (/\ ret.op = "SetHistoricalQuotation"
              /\ ret.err = NoErr
              /\ r[1] < ret.val.Time
              /\ ret.val.Time < r[2]
              /\ GetHistoricalQuotations(ret.asset, r[1], r[2], FALSE, TRUE))
             => /\ ret'.err = NoErr
                /\ Cardinality(EntriesOf(ret'.vals, ret.val.Time, ret.val.Source)) = 1
                /\ \A i \in EntriesOf(ret'.vals, ret.val.Time, ret.val.Source) :
                      \E row \in hist :
                         /\ Conflict(row, HistRow(ret.val))
                         /\ ret'.vals[i].Price = row.price]_vars

\* a second insert, of another price, has returned without error and the
\* table holds the row of the first
C12_Witness ==
    /\ ret.op = "SetHistoricalQuotation"
    /\ ret.err = NoErr
    /\ \E r \in hist : Conflict(r, HistRow(ret.val)) /\ r.price # ret.val.Price
    /\ Cardinality({r \in hist : Conflict(r, HistRow(ret.val))}) = 1

\* the lookups of a call whose quotation lookup and whose volume lookup both
\* gave a value
Succeeds(log) ==
    {i \in 1..Len(log) : log[i].err = NoErr /\ log[i].metric.kind = "val"}

\* res holds the quotations of the lookups ok, one each, greatest volume first
SortedAnswerOf(res, ok) ==
    /\ res.err = NoErr
    /\ Len(res.vals) = Cardinality(ok)
    /\ \E p \in [1..Len(res.vals) -> ok] :
          /\ \A i, j \in 1..Len(res.vals) : i # j => p[i] # p[j]
          /\ \A i \in 1..Len(res.vals) : res.vals[i] = res.log[p[i]].val
          /\ \A i \in 1..(Len(res.vals) - 1) :
                res.log[p[i]].metric.val >= res.log[p[i + 1]].metric.val

\* C13: GetSortedAssetQuotations skips every asset whose latest-quotation or
\* 24h-volume lookup fails (gives no quotation, no volume) and goes on with
\* the rest, so that every asset of the list is looked up; it returns exactly
\* the quotations of the other assets, by volume descending, with no error,
\* and it returns "no quotations available" if and only if no asset succeeded.
C13_Original ==
    ret.op = "GetSortedAssetQuotations" =>
       /\ [i \in 1..Len(ret.log) |-> ret.log[i].asset] \in AssetLists
       /\ (ret.err = NoQuotationsAvailableErr) <=> (Succeeds(ret.log) = {})
       /\ Succeeds(ret.log) = {} => ret.vals = <<>>
       /\ Succeeds(ret.log) # {} => SortedAnswerOf(ret, Succeeds(ret.log))

\* the candidates whose metric lookup gave a positive value
Positive(values) == {i \in 1..Len(values) : values[i].kind = "val" /\ values[i].val > 0}

\* the first candidate of the greatest positive value
FirstGreatest(values) ==
    CHOOSE i \in Positive(values) :
       \A j \in Positive(values) :
          \/ values[j].val < values[i].val
          \/ values[j].val = values[i].val /\ i <= j

TopOps == {"GetTopAssetByVolume", "GetTopAssetByMcap"}

\* C14: GetTopAssetByVolume and GetTopAssetByMcap return the candidate of the
\* greatest positive metric among those whose lookup succeeded, the first in
\* registry order on a tie; a failed lookup of any candidate, the last one
\* included, is passed over and leaves a successful selection without error.
\* Supplies (0, 5, 3) at price 100 are market caps (0, 500, 300) and select
\* the second candidate.
C14_TopAssetIsFirstGreatest ==
    (ret.op \in TopOps /\ ret.log # <<>>) =>
       /\ Positive(TopValues(ret.op, ret.log)) # {}
             => /\ ret.asset = ret.log[FirstGreatest(TopValues(ret.op, ret.log))].asset
                /\ ret.err = NoErr
       /\ (/\ ret.op = "GetTopAssetByMcap"
           /\ [i \in 1..Len(ret.log) |-> ret.log[i].err] = <<NoErr, NoErr, NoErr>>
           /\ [i \in 1..Len(ret.log) |-> ret.log[i].metric] = <<Value(0), Value(5), Value(3)>>)
             => /\ TopValues(ret.op, ret.log) = <<Value(0), Value(500), Value(300)>>
                /\ ret.asset = AssetC
       /\ (/\ [i \in 1..Len(ret.log) |-> ret.log[i].err] = <<NoErr, NoErr, NoErr>>
           /\ [i \in 1..Len(ret.log) |-> ret.log[i].metric.kind] = <<"val", "val", "err">>
           /\ ret.log[1].metric.val = ret.log[2].metric.val
           /\ ret.log[1].metric.val > 0)
             => (ret.asset = AssetA /\ ret.err = NoErr)

\* a market-cap selection over A, C, D with supplies (0, 5, 3), each found in
\* the cache, chose the second candidate and returned no error
C14_Witness ==
    /\ ret.op = "GetTopAssetByMcap"
    /\ ret.err = NoErr
    /\ ret.asset = AssetC
    /\ Len(ret.log) = 3
    /\ [i \in 1..Len(ret.log) |-> ret.log[i].metric] = <<Value(0), Value(5), Value(3)>>

\* a top-asset call made with the registry answering r, which names no
\* candidate: no lookup follows
TopCall(r) ==
    \/ GetTopAssetByVolume("ABC", r, NoMetric)
    \/ GetTopAssetByMcap("ABC", r)

\* the error outcomes of a top-asset call over its candidates
ListedTopErr(values, e) ==
    /\ (e = NoQuotationForSymbolErr) <=> (Positive(values) = {})
    /\ e \in {NoQuotationForSymbolErr, NoErr}

\* C15 as stated: "no matching asset" when the registry returns no candidate,
\* "no quotation for symbol" if and only if there is a candidate and no
\* candidate has a positive metric, no error in every other case.
C15_Original ==
    [][/\ \A r \in Registries :
             (Len(r.assets) = 0 /\ TopCall(r)) => ret'.err = NoMatchingAssetErr
       /\ (ret'.op \in TopOps /\ ret'.log # <<>>)
             => ListedTopErr(TopValues(ret'.op, ret'.log), ret'.err)]_vars

\* C15: when the registry lookup itself fails, GetTopAssetByVolume and
\* GetTopAssetByMcap return its error and no asset; when it succeeds they fail
\* with "no matching asset" if it found no candidate, with "no quotation for
\* symbol" if and only if it found one and no candidate has a positive metric,
\* and return no error in every other case.
C15_TopAssetErrors ==
    [][/\ \A r \in Registries :
             (r.err # NoErr /\ TopCall(r))
                => (ret'.op \in TopOps /\ ret'.err = r.err /\ ret'.asset = ZeroAsset)
       /\ \A r \in Registries :
             (r.err = NoErr /\ Len(r.assets) = 0 /\ TopCall(r))
                => (ret'.op \in TopOps /\ ret'.err = NoMatchingAssetErr /\ ret'.asset = ZeroAsset)
       /\ (ret'.op \in TopOps /\ ret'.log # <<>>)
             => /\ ListedTopErr(TopValues(ret'.op, ret'.log), ret'.err)
                /\ ret'.err # NoErr => ret'.asset = ZeroAsset]_vars

\* a top-asset call returned the error of the registry lookup
C15_Witness ==
    /\ ret.op \in TopOps
    /\ ret.err = RegistryErr
    /\ ret.asset = ZeroAsset

\* the step is one of an aggregation call: its start, one of its lookups, or
\* its return
AggregationStep ==
    \/ ret'.op \in AggregationOps
    \/ ret' = InFlight /\ call'.op \in AggregationOps

\* C16: GetSortedAssetQuotations, GetTopAssetByVolume, GetTopAssetByMcap and
\* GetAssetsMarketCap leave the cache (and the pipe of pending cache writes),
\* the time-series measurement and the historical table unchanged at every
\* one of their steps, whether they succeed or fail.
C16_AggregationNeverWrites ==
    [][AggregationStep =>
          /\ redis' = redis
          /\ redisPipe' = redisPipe
          /\ influx' = influx
          /\ hist' = hist]_vars

\* a sorted-quotations call over A, C, D answered with the quotation of C
\* alone: the pipe was executed between its lookup of A, a miss, and its
\* lookup of C, a hit
C16_Witness ==
    /\ ret.op = "GetSortedAssetQuotations"
    /\ ret.err = NoErr
    /\ ret.vals = <<Quotation(AssetC, 100, TimeNew)>>
    /\ Len(ret.log) = 3
    /\ ret.log[1].err = NoQuotationErr
    /\ Entry(AssetA).present
    /\ influx # {}

\* C17 as stated: the time-to-live of every cache write of an asset quotation
\* is at least the greatest aggregation window plus the buffer, and so at
\* least the 7-day lookback of the latest-quotation fallback query.
C17_Original ==
    /\ \A i \in 1..Len(redisPipe) :
          /\ redisPipe[i].ttl >= BiggestWindow + BufferTTL
          /\ redisPipe[i].ttl >= assetQuotationLookbackHours * Hour
    /\ \A k \in Keys : redis[k].present =>
          redis[k].exp - now >= assetQuotationLookbackHours * Hour

\* C17: the time-to-live of every cache write of an asset quotation is the
\* fixed duration of one day (TimeOutAssetQuotation); it is shorter than the
\* 7-day lookback of the latest-quotation fallback query and than the
\* greatest aggregation window plus the buffer (TimeOutRedis).
C17_CacheTTLIsOneDay ==
    /\ \A i \in 1..Len(redisPipe) :
          /\ redisPipe[i].ttl = 24 * Hour
          /\ redisPipe[i].ttl < assetQuotationLookbackHours * Hour
          /\ redisPipe[i].ttl < TimeOutRedis
    /\ \A k \in Keys : redis[k].present => redis[k].exp = now + 24 * Hour
    /\ TimeOutRedis = 8 * 24 * Hour + Hour

\* a cache write was queued and another one was executed
C17_Witness ==
    /\ redisPipe # <<>>
    /\ \E k \in Keys : redis[k].present /\ redis[k].exp - now = 24 * Hour

\* C18 as claimed: when the cache holds no entry for the asset, a
\* freshness-checked SetAssetQuotationCache takes the "not present" answer of
\* its read as no error and as a time no quotation is before (minus
\* infinity), goes on to its write and returns written=true, for every
\* quotation time.
C18_Original ==
    [][/\ \A q \in FirstWriteQuotations :
             (/\ ~Entry(q.Asset).present
              /\ SetAssetQuotationCache(q, TRUE, FALSE))
             => /\ ret'.op = "SetAssetQuotationCacheCheck:Get"
                /\ ret'.err = RedisNil
                /\ pending' = [active |-> TRUE, q |-> q, seen |-> ZeroQuotation]
       /\ SetAssetQuotationCacheWrite
             => /\ ret'.written /\ ret'.err = NoErr /\ ret'.val = pending.q
                /\ redisPipe' = Append(redisPipe,
                                       [key |-> KeyOf(pending.q.Asset), val |-> pending.q,
                                        ttl |-> TimeOutAssetQuotation])]_vars

\* C18 as amended: when the cache holds no entry for the asset, a
\* freshness-checked SetAssetQuotationCache takes the "not present" answer of
\* its read as no error and as the zero time; for every quotation time that
\* is not before the zero time it goes on to its write, queues the Set and
\* returns written=true; for a quotation time before the zero time it skips
\* the write and returns written=false with no error.
C18_FirstWriteProceeds ==
    [][/\ \A q \in FirstWriteQuotations :
             ~Entry(q.Asset).present =>
                /\ GetAssetQuotationCache(q.Asset, FALSE)
                     = [val |-> ZeroQuotation, err |-> RedisNil]
                /\ SetCacheOutcome(q, TRUE, FALSE)
                     = IF q.Time >= ZeroTime
                       THEN [written |-> TRUE, err |-> NoErr, queued |-> TRUE]
                       ELSE [written |-> FALSE, err |-> NoErr, queued |-> FALSE]
       /\ \A q \in FirstWriteQuotations :
             (/\ ~Entry(q.Asset).present
              /\ q.Time >= ZeroTime
              /\ SetAssetQuotationCache(q, TRUE, FALSE))
             => /\ ret'.op = "SetAssetQuotationCacheCheck:Get"
                /\ ret'.err = RedisNil
                /\ pending' = [active |-> TRUE, q |-> q, seen |-> ZeroQuotation]
       /\ \A q \in FirstWriteQuotations :
             (/\ ~Entry(q.Asset).present
              /\ q.Time < ZeroTime
              /\ SetAssetQuotationCache(q, TRUE, FALSE))
             => /\ Skipped
                /\ ret'.val = q
                /\ ret'.vals = <<ZeroQuotation>>
       /\ SetAssetQuotationCacheWrite
             => /\ ret'.written /\ ret'.err = NoErr /\ ret'.val = pending.q
                /\ redisPipe' = Append(redisPipe,
                                       [key |-> KeyOf(pending.q.Asset), val |-> pending.q,
                                        ttl |-> TimeOutAssetQuotation])]_vars

\* a checked call of a time before the zero time was skipped on an asset the
\* cache holds no entry of, the first write of that asset, of the zero time,
\* waiting on the pipe
C18_Witness ==
    /\ ret.op = "SetAssetQuotationCacheCheck"
    /\ ~ret.written /\ ret.err = NoErr
    /\ ret.val.Time < ZeroTime
    /\ ret.vals = <<ZeroQuotation>>
    /\ ~Entry(ret.asset).present
    /\ Len(redisPipe) = 1
    /\ redisPipe[1].val = Quotation(ret.asset, 100, ZeroTime)

\* C19: when the freshness read of a checked SetAssetQuotationCache fails with
\* a cache error other than "not present", the call returns written=false and
\* that error, queues no write and leaves the cached entry unchanged.
C19_FreshnessReadErrorAborts ==
    [][\A q \in Quotations :
          (/\ ret'.op \in {"SetAssetQuotationCacheCheck", "SetAssetQuotationCacheCheck:Get"}
           /\ ret'.val = q
           /\ GetAssetQuotationCache(q.Asset, TRUE).err \notin {NoErr, RedisNil}
           /\ SetAssetQuotationCache(q, TRUE, TRUE))
          => /\ ret'.op = "SetAssetQuotationCacheCheck"
             /\ pending' = pending
             /\ ret'.written = FALSE
             /\ ret'.err = GetAssetQuotationCache(q.Asset, TRUE).err
             /\ redisPipe' = redisPipe
             /\ redis' = redis
             /\ Entry(q.Asset)' = Entry(q.Asset)]_vars

\* a checked call whose read failed returned the error, though the entry the
\* cache holds is older than its quotation
C19_Witness ==
    /\ ret.op = "SetAssetQuotationCacheCheck"
    /\ ret.written = FALSE
    /\ ret.err = RedisErr
    /\ Entry(ret.asset).present
    /\ Entry(ret.asset).val.Time < ret.val.Time
    /\ ~HasCmd(KeyOf(ret.asset), redisPipe)

\* C20: cache slots are isolated per asset: two assets that differ in
\* (blockchain, address) have different keys, so executing cache writes of one
\* asset never changes what GetAssetQuotationCache returns for the other, also
\* when blockchain or address hold the "_" separator.
C20_Original ==
    [][\A a, b \in KeyAssets :
          (/\ <<a.Blockchain, a.Address>> # <<b.Blockchain, b.Address>>
           /\ redisPipe # <<>>
           /\ \A i \in 1..Len(redisPipe) : redisPipe[i].val.Asset = a
           /\ ExecuteRedisPipe)
          => /\ KeyOf(a) # KeyOf(b)
             /\ GetAssetQuotationCache(b, FALSE)' = GetAssetQuotationCache(b, FALSE)]_vars

====
